---- MODULE Spec2Model ----
(***************************************************************************)
(* Audit heatmap (src/script.js): the remote-first / offline-fallback      *)
(* repository, the filter and year state, and the calendar grid synthesis. *)
(*                                                                         *)
(* Time is counted in minutes since 1970-01-01T00:00Z (a JS Date's         *)
(* getTime() / 60000), so that every instant of the modelled years fits a  *)
(* 32-bit integer.  An ISO date string "YYYY-MM-DD" is the triple          *)
(* <<YYYY, MM, DD>>; an absent date field is the empty tuple.  A text that *)
(* is read character by character (a title, a description, the date of a  *)
(* form) is the sequence of its characters.                                *)
(***************************************************************************)
EXTENDS Integers, Sequences, FiniteSets, TLC

VARIABLES
    heatmapSelectedYear,   \* script.js:70
    heatmapActiveFilters,  \* script.js:71
    heatmapData,           \* script.js:72  the in-memory AggregateMap
    heatmapIsOnline,       \* script.js:73  ConnectivityState
    storage,               \* localStorage item under HEATMAP_STORAGE_KEY
    remote,                \* the audits held by the remote service
    tasks,                 \* the async calls in flight, one per slot
    now,                   \* Date.now(), as read by the last offline create
    grid,                  \* what the last heatmapRenderGrid drew from
    done,                  \* outcome of the call that completed last
    ops,                   \* number of user-triggered calls started so far
    authority,             \* the source and year of the load that supplied heatmapData
    tz,                    \* the time zone of the browser
    surface,               \* the DOM: #heatmap-grid, #heatmap-months-row, header
    form                   \* the DOM: the fields and the error list of a form

vars == <<heatmapSelectedYear, heatmapActiveFilters, heatmapData,
          heatmapIsOnline, storage, remote, tasks, now, grid, done, ops,
          authority, tz, surface, form>>

(***************************************************************************)
(* Bounds of the model                                                     *)
(***************************************************************************)
MaxTasks == 2
MaxOps == 2
MaxGridYear == 2027
GridYearSpan == 27
MaxCount == 8

(***************************************************************************)
(* CONFIG (script.js:50-65)                                                *)
(***************************************************************************)
HEATMAP_START_YEAR == 2024
\* new Date().getFullYear() when the page is loaded
HEATMAP_CURRENT_YEAR == 2025
\* 24 * 60 * 60 * 1000 ms, in minutes
HEATMAP_DAY_MS == 24 * 60
HEATMAP_MONTH_NAMES ==
    <<"Jan", "Feb", "Mar", "Apr", "May", "Jun",
      "Jul", "Aug", "Sep", "Oct", "Nov", "Dec">>
VALID_AUDIT_TYPES == {"internal", "external"}

(***************************************************************************)
(* The calendar of a JS Date (proleptic Gregorian, days since 1970-01-01). *)
(* The methods of Date are functions of the instant they are called on.    *)
(***************************************************************************)
DaysFromCivil[y \in Int, m \in Int, d \in Int] ==
    LET yy  == IF m <= 2 THEN y - 1 ELSE y
        era == yy \div 400
        yoe == yy - era * 400
        mp  == IF m > 2 THEN m - 3 ELSE m + 9
        doy == (153 * mp + 2) \div 5 + d - 1
        doe == yoe * 365 + yoe \div 4 - yoe \div 100 + doy
    IN  era * 146097 + doe - 719468

\* the inverse, in the stages of the same algorithm: the year of the era,
\* the day of the year, then the month and the day of the month
YearOfEra[doe \in Int] ==
    (doe - doe \div 1460 + doe \div 36524 - doe \div 146096) \div 365
DayOfYear[doe \in Int, yoe \in Int] ==
    doe - (365 * yoe + yoe \div 4 - yoe \div 100)
MonthAndDay[y \in Int, doy \in Int, mp \in Int] ==
    LET d == doy - (153 * mp + 2) \div 5 + 1
        m == IF mp < 10 THEN mp + 3 ELSE mp - 9
    IN  <<IF mp < 10 THEN y ELSE y + 1, m, d>>
CivilOfEra[era \in Int, doe \in Int, yoe \in Int, doy \in Int] ==
    MonthAndDay[yoe + era * 400, doy, (5 * doy + 2) \div 153]
DayOfEra[era \in Int, doe \in Int, yoe \in Int] ==
    CivilOfEra[era, doe, yoe, DayOfYear[doe, yoe]]
EraOfDay[zz \in Int, era \in Int] ==
    DayOfEra[era, zz - era * 146097, YearOfEra[zz - era * 146097]]
CivilFromDays[z \in Int] == EraOfDay[z + 719468, (z + 719468) \div 146097]

\* 0 = Sunday .. 6 = Saturday; 1970-01-01 was a Thursday
WeekDayOfDays[z \in Int] == (z + 4) % 7

(***************************************************************************)
(* Time zones: the offset of local time from UTC, in minutes.  A zone with *)
(* daylight saving is one hour ahead of its standard offset from April to  *)
(* October (north) or from October to March (south), by the UTC month.     *)
(***************************************************************************)
TimeZones ==
    { [name |-> "UTC",              std |-> 0,    dst |-> "none"],
      [name |-> "America/Bogota",   std |-> -300, dst |-> "none"],
      [name |-> "America/New_York", std |-> -300, dst |-> "north"],
      [name |-> "Europe/Berlin",    std |-> 60,   dst |-> "north"],
      [name |-> "Asia/Tokyo",       std |-> 540,  dst |-> "none"],
      [name |-> "Australia/Sydney", std |-> 600,  dst |-> "south"] }

UtcOffset[zone \in TimeZones, t \in Int] ==
    LET month == CivilFromDays[t \div HEATMAP_DAY_MS][2]
        inDst == CASE zone.dst = "north" -> month \in 4..10
                   [] zone.dst = "south" -> month \in {10, 11, 12, 1, 2, 3}
                   [] OTHER -> FALSE
    IN  zone.std + (IF inDst THEN 60 ELSE 0)

\* the local wall clock of instant t, in minutes since 1970-01-01T00:00 local
LocalMinutes[zone \in TimeZones, t \in Int] == t + UtcOffset[zone, t]
\* the instant whose local wall clock reads `local`
FromLocalMinutes[zone \in TimeZones, local \in Int] ==
    local - UtcOffset[zone, local - zone.std]

\* new Date(year, monthIndex, day): local midnight; a year of 0..99 is a year
\* of the 1900s
NewDate[zone \in TimeZones, year \in Int, monthIndex \in Int, day \in Int] ==
    FromLocalMinutes[zone, DaysFromCivil[IF year \in 0..99 THEN 1900 + year ELSE year,
                                         monthIndex + 1, day] * HEATMAP_DAY_MS]

LocalCivil[zone \in TimeZones, t \in Int] ==
    CivilFromDays[LocalMinutes[zone, t] \div HEATMAP_DAY_MS]
GetFullYear[zone \in TimeZones, t \in Int] == LocalCivil[zone, t][1]
GetMonth[zone \in TimeZones, t \in Int] == LocalCivil[zone, t][2] - 1
GetDate[zone \in TimeZones, t \in Int] == LocalCivil[zone, t][3]
GetDay[zone \in TimeZones, t \in Int] ==
    WeekDayOfDays[LocalMinutes[zone, t] \div HEATMAP_DAY_MS]

\* date.setDate(n): the local day of the month becomes n (any integer), the
\* local year, month and time of day are kept
SetDate[zone \in TimeZones, t \in Int, n \in Int] ==
    LET local == LocalMinutes[zone, t]
        civil == CivilFromDays[local \div HEATMAP_DAY_MS]
        days  == DaysFromCivil[civil[1], civil[2], 1] + n - 1
    IN  FromLocalMinutes[zone, (days * HEATMAP_DAY_MS) + (local % HEATMAP_DAY_MS)]

\* date.toISOString().split('T')[0]: the UTC calendar date
ToISODate[t \in Int] == CivilFromDays[t \div HEATMAP_DAY_MS]

(***************************************************************************)
(* DATA HELPERS (script.js:361-371)                                        *)
(***************************************************************************)
NoAudits == [internal |-> 0, external |-> 0, total |-> 0]

\* heatmapData[dateStr] || { internal: 0, external: 0, total: 0 }
heatmapGetAuditData(zone, data, date) ==
    LET dateStr == ToISODate[date]
    IN  IF dateStr \in DOMAIN data THEN data[dateStr] ELSE NoAudits

\* a count that ignores the filter
heatmapGetFilteredCountAll(filters, data) == data.internal + data.external

heatmapGetFilteredCount(filters, data) ==
    (IF filters.internal THEN data.internal ELSE 0)
    + (IF filters.external THEN data.external ELSE 0)

(***************************************************************************)
(* RENDER HEATMAP GRID (script.js:592-725)                                 *)
(***************************************************************************)
MathRoundDiv(a, b) == (2 * a + b) \div (2 * b)
MathCeilDiv(a, b) == (a + b - 1) \div b

\* the week day added instead of subtracted
GridStartDateForward(zone, year) ==
    LET yearStart == NewDate[zone, year, 0, 1]
        startDayOfWeek == GetDay[zone, yearStart]
    IN  SetDate[zone, yearStart, GetDate[zone, yearStart] + startDayOfWeek]

\* Grid starts on the Sunday of the week containing Jan 1
GridStartDate(zone, year) ==
    LET yearStart == NewDate[zone, year, 0, 1]
        startDayOfWeek == GetDay[zone, yearStart]
    IN  SetDate[zone, yearStart, GetDate[zone, yearStart] - startDayOfWeek]

\* Grid ends on the Saturday of the week containing Dec 31
GridEndDate(zone, year) ==
    LET yearEnd == NewDate[zone, year, 11, 31]
        endDayOfWeek == GetDay[zone, yearEnd]
    IN  SetDate[zone, yearEnd, GetDate[zone, yearEnd] + (6 - endDayOfWeek)]

GridYears == (MaxGridYear - GridYearSpan)..MaxGridYear

TotalWeeks(zone, year) ==
    LET totalDays ==
            MathRoundDiv(GridEndDate(zone, year) - GridStartDate(zone, year),
                         HEATMAP_DAY_MS) + 1
    IN  MathCeilDiv(totalDays, 7)

\* the thresholds compared with < for <=
LevelExclusive(count) ==
    IF count = 0 THEN 0
    ELSE IF count < 2 THEN 1
    ELSE IF count < 4 THEN 2
    ELSE IF count < 7 THEN 3
    ELSE 4

\* Assign Level Class
Level(count) ==
    IF count = 0 THEN 0
    ELSE IF count <= 2 THEN 1
    ELSE IF count <= 4 THEN 2
    ELSE IF count <= 7 THEN 3
    ELSE 4

\* one iteration of the loop of script.js:621-713, without the month label:
\* the cell at offset i, whose classes are set once its count n is known
Cell(zone, year, data, filters, gridStartDate, i) ==
    LET currentDate == gridStartDate + i * HEATMAP_DAY_MS
        isoDateStr == ToISODate[currentDate]
        isTargetYear == GetFullYear[zone, currentDate] = year
        found == IF isTargetYear
                 THEN heatmapGetAuditData(zone, data, currentDate)
                 ELSE [internal |-> 0, external |-> 0]
        count == IF isTargetYear
                 THEN heatmapGetFilteredCount(filters, found)
                 ELSE 0
        cell[n \in Nat] ==
            [date |-> isoDateStr,
             hidden |-> ~isTargetYear,
             count |-> n,
             level |-> Level(n),
             local |-> LocalCivil[zone, currentDate],
             day |-> GetDay[zone, currentDate]]
    IN  cell[count]

\* a label for the first week of every month, whatever year its midpoint is in
ShowMonthAnyYear(midWeekYear, year, monthIndex, heatmapRenderedMonths) ==
    monthIndex \notin heatmapRenderedMonths

\* Only show month label if: in target year AND first occurrence of that month
ShowMonth(midWeekYear, year, monthIndex, heatmapRenderedMonths) ==
    midWeekYear = year /\ monthIndex \notin heatmapRenderedMonths

\* Month Labels (one per week column), script.js:695-710: the labels of the
\* week columns from column w on, given the months already labelled
MonthLabels[zone \in TimeZones, year \in Int, gridStartDate \in Int, totalWeeks \in Nat, w \in Nat, heatmapRenderedMonths \in SUBSET (0..11)] ==
    IF w >= totalWeeks THEN <<>>
    ELSE
        LET currentDate == gridStartDate + (w * 7) * HEATMAP_DAY_MS
            midWeekDate == currentDate + 3 * HEATMAP_DAY_MS
            monthIndex == GetMonth[zone, midWeekDate]
            midWeekYear == GetFullYear[zone, midWeekDate]
            show == ShowMonth(midWeekYear, year, monthIndex, heatmapRenderedMonths)
        IN  <<IF show THEN HEATMAP_MONTH_NAMES[monthIndex + 1] ELSE "">>
            \o MonthLabels[zone, year, gridStartDate, totalWeeks, w + 1,
                           IF show THEN heatmapRenderedMonths \cup {monthIndex}
                                   ELSE heatmapRenderedMonths]

\* the loop of script.js:621-713 between the boundaries of script.js:601-616;
\* heatmapTotalAudits[lo, hi] is the sum of the counts of the cells lo..hi
heatmapRenderGrid(zone, year, data, filters) ==
    LET loop[gridStartDate \in Int, totalWeeks \in Nat] ==
            LET grd == [k \in 1..(totalWeeks * 7) |->
                          Cell(zone, year, data, filters, gridStartDate, k - 1)]
                heatmapTotalAudits[lo \in Int, hi \in Int] ==
                    IF lo > hi THEN 0
                    ELSE IF lo = hi THEN grd[lo].count
                    ELSE heatmapTotalAudits[lo, (lo + hi) \div 2]
                         + heatmapTotalAudits[(lo + hi) \div 2 + 1, hi]
            IN  [grid |-> grd,
                 months |-> MonthLabels[zone, year, gridStartDate, totalWeeks, 0, {}],
                 total |-> heatmapTotalAudits[1, totalWeeks * 7],
                 year |-> year]
    IN  loop[GridStartDate(zone, year), TotalWeeks(zone, year)]

\* the rendering surface before the first render
Blank == [grid |-> <<>>, months |-> <<>>, total |-> 0, year |-> 0]

(***************************************************************************)
(* STATE (script.js:67-73) as the script leaves it before heatmapInit runs *)
(***************************************************************************)
AllFilters == [internal |-> TRUE, external |-> TRUE]
\* {} : an object without keys
EmptyMap == <<>>
NoDate == <<>>
NoAuthority == [source |-> "none", year |-> 0]
NoForm ==
    [title |-> <<>>, description |-> <<>>, date |-> <<>>, errors |-> <<>>,
     submitted |-> FALSE]
NotRendered ==
    [year |-> 0, data |-> EmptyMap, filters |-> AllFilters,
     authority |-> NoAuthority, online |-> TRUE]

(***************************************************************************)
(* INPUT VALIDATION HELPERS (script.js:84-141).  A string is a sequence of *)
(* one-character strings.                                                  *)
(***************************************************************************)
Undefined == <<"undefined">>

\* input.replace(/c/g, entity)
ReplaceAll[input \in Seq(STRING), c \in STRING, entity \in Seq(STRING)] ==
    IF input = <<>> THEN <<>>
    ELSE (IF Head(input) = c THEN entity ELSE <<Head(input)>>)
         \o ReplaceAll[Tail(input), c, entity]

\* the replace() calls without those of the two quotes
sanitizeInputTags(input) ==
    IF input = Undefined THEN <<>>
    ELSE ReplaceAll[ReplaceAll[ReplaceAll[input,
            "&", <<"&", "a", "m", "p", ";">>],
            "<", <<"&", "l", "t", ";">>],
            ">", <<"&", "g", "t", ";">>]

\* the five replace() calls, in the order of the code: "&" first
sanitizeInput(input) ==
    IF input = Undefined THEN <<>>
    ELSE ReplaceAll[ReplaceAll[ReplaceAll[ReplaceAll[ReplaceAll[input,
            "&", <<"&", "a", "m", "p", ";">>],
            "<", <<"&", "l", "t", ";">>],
            ">", <<"&", "g", "t", ";">>],
            "\"", <<"&", "q", "u", "o", "t", ";">>],
            "'", <<"&", "#", "x", "2", "7", ";">>]

\* title.trim() is empty
Blank_(title) == \A k \in 1..Len(title) : title[k] = " "

MAX_TITLE_LENGTH == 255
Digits == <<"0", "1", "2", "3", "4", "5", "6", "7", "8", "9">>
IsDigit(c) == \E k \in 1..10 : Digits[k] = c
\* /^\d{4}-\d{2}-\d{2}$/
DATE_PATTERN(date) ==
    /\ Len(date) = 10
    /\ \A k \in 1..10 : IF k \in {5, 8} THEN date[k] = "-" ELSE IsDigit(date[k])
\* Number(c) of a digit
DigitValue(c) == CHOOSE k \in 0..9 : Digits[k + 1] = c
\* auditData.date.split('-').map(Number), of a text that matches the pattern
SplitDate(date) ==
    <<1000 * DigitValue(date[1]) + 100 * DigitValue(date[2])
        + 10 * DigitValue(date[3]) + DigitValue(date[4]),
      10 * DigitValue(date[6]) + DigitValue(date[7]),
      10 * DigitValue(date[9]) + DigitValue(date[10])>>

\* the text of the ISO date <<y, m, d>>, each part padded with zeros
Pad2(n) == <<Digits[((n \div 10) % 10) + 1], Digits[(n % 10) + 1]>>
IsoString(date) ==
    Pad2(date[1] \div 100) \o Pad2(date[1]) \o <<"-">> \o Pad2(date[2])
    \o <<"-">> \o Pad2(date[3])

\* Validate actual date value: the Date of the three numbers reads back
DateValueErrors[zone \in TimeZones, year \in Int, month \in Int, day \in Int, testDate \in Int] ==
    IF \/ GetFullYear[zone, testDate] # year
       \/ GetMonth[zone, testDate] # month - 1
       \/ GetDate[zone, testDate] # day
    THEN <<"Invalid date value">>
    ELSE <<>>
DateErrors[zone \in TimeZones, year \in Int, month \in Int, day \in Int] ==
    DateValueErrors[zone, year, month, day, NewDate[zone, year, month - 1, day]]

\* validateAuditData: the list of error messages, empty when valid; the date
\* is a text
validateAuditData(zone, auditData) ==
    (IF auditData.title = Undefined \/ auditData.title = <<>> \/ Blank_(auditData.title)
     THEN <<"Title is required">>
     ELSE IF Len(auditData.title) > MAX_TITLE_LENGTH
          THEN <<"Title cannot exceed 255 characters">>
          ELSE <<>>)
    \o
    (IF auditData.date = <<>> THEN <<"Date is required">>
     ELSE IF ~DATE_PATTERN(auditData.date)
          THEN <<"Date must be in YYYY-MM-DD format">>
          ELSE DateErrors[zone, SplitDate(auditData.date)[1],
                          SplitDate(auditData.date)[2], SplitDate(auditData.date)[3]])

(***************************************************************************)
(* localStorage: the item stored under HEATMAP_STORAGE_KEY is absent       *)
(* (getItem returns null), a string that is not JSON, the JSON text null,  *)
(* or the JSON text of an object.  The fields of the object are those of   *)
(* its properties internal and external that are arrays.                   *)
(***************************************************************************)
EmptyDocument == [internal |-> <<>>, external |-> <<>>]
AbsentItem == [kind |-> "absent", doc |-> EmptyDocument]
CorruptItem == [kind |-> "corrupt", doc |-> EmptyDocument]
NullItem == [kind |-> "null", doc |-> EmptyDocument]
\* JSON.stringify(data)
JsonStringify(data) == [kind |-> "doc", doc |-> data]
\* JSON.parse(null) is null: the text "null" is JSON
Null == [null |-> TRUE]

\* safeJsonParse(jsonString, defaultValue)
safeJsonParse(jsonString, defaultValue) ==
    CASE jsonString.kind \in {"absent", "null"} -> Null
      [] jsonString.kind = "corrupt" -> defaultValue
      [] OTHER -> jsonString.doc

(***************************************************************************)
(* OFFLINE FALLBACK (script.js:308-356)                                    *)
(***************************************************************************)
CountOn(audits, date) ==
    Cardinality({k \in 1..Len(audits) : audits[k].date = date})

\* a tally whose total counts an entry once, when the entry is made
TallyTotalOnce(data) ==
    LET dated == {data.internal[k].date : k \in 1..Len(data.internal)}
                 \cup {data.external[k].date : k \in 1..Len(data.external)}
    IN  [d \in dated \ {NoDate} |->
            [internal |-> CountOn(data.internal, d),
             external |-> CountOn(data.external, d),
             total |-> 1]]

\* the tally of script.js:313-325: one entry per date that occurs
Tally(data) ==
    LET dated == {data.internal[k].date : k \in 1..Len(data.internal)}
                 \cup {data.external[k].date : k \in 1..Len(data.external)}
    IN  [d \in dated \ {NoDate} |->
            [internal |-> CountOn(data.internal, d),
             external |-> CountOn(data.external, d),
             total |-> CountOn(data.internal, d) + CountOn(data.external, d)]]

\* Array.isArray(data[type]) ? data[type] : []
ArrayOf(data, type) == IF type \in DOMAIN data THEN data[type] ELSE <<>>
EnsureArrays(data) == [type \in VALID_AUDIT_TYPES |-> ArrayOf(data, type)]

\* data[type] of null: heatmapLoadDataOffline throws a TypeError
heatmapLoadDataOfflineThrows(stored) ==
    stored.kind # "absent" /\ safeJsonParse(stored, EmptyDocument) = Null

\* heatmapLoadDataOffline: the map it leaves in heatmapData and, unless it
\* throws, returns; heatmapData = {} precedes the read of data[type]
heatmapLoadDataOffline(stored, data) ==
    IF stored.kind = "absent" THEN data
    ELSE IF heatmapLoadDataOfflineThrows(stored) THEN EmptyMap
    ELSE Tally(EnsureArrays(safeJsonParse(stored, EmptyDocument)))

\* heatmapCreateAuditOffline: how it ends, and the store, the map and the
\* clock it leaves
heatmapCreateAuditOfflinePush(type, auditData, stored, data, clock) ==
    LET parsed == safeJsonParse(stored, EmptyDocument)
    IN  IF parsed = Null
        THEN \* data.internal of null
             [outcome |-> "threw", value |-> [error |-> "TypeError"],
              storage |-> stored, data |-> data]
        ELSE LET audit == [id |-> clock,
                           title |-> sanitizeInput(auditData.title),
                           description |-> sanitizeInput(auditData.description),
                           date |-> auditData.date,
                           createdAt |-> clock]
                 pushed == [EnsureArrays(parsed) EXCEPT ![type] = Append(@, audit)]
                 item == JsonStringify(pushed)
             IN  [outcome |-> "returned", value |-> audit,
                  storage |-> item,
                  data |-> heatmapLoadDataOffline(item, data)]

\* an offline create without its category check: data[type] is undefined
\* for an unknown category and its push throws
heatmapCreateAuditOfflineUnchecked(type, auditData, stored, data, clock) ==
    IF type \notin VALID_AUDIT_TYPES
    THEN [outcome |-> "threw", value |-> [error |-> "TypeError"],
          storage |-> stored, data |-> data]
    ELSE heatmapCreateAuditOfflinePush(type, auditData, stored, data, clock)

heatmapCreateAuditOffline(type, auditData, stored, data, clock) ==
    IF type \notin VALID_AUDIT_TYPES
    THEN [outcome |-> "returned", value |-> Null,
          storage |-> stored, data |-> data]
    ELSE heatmapCreateAuditOfflinePush(type, auditData, stored, data, clock)

(***************************************************************************)
(* The remote audit service (spec section 6): the audits it holds, in the  *)
(* order of their ids, and its answers                                     *)
(***************************************************************************)
LiveOn(rem, type, date) ==
    Cardinality({k \in 1..Len(rem) :
        rem[k].live /\ rem[k].audit_type = type /\ rem[k].audit_date = date})

\* GET /heatmap/{year}: one item per date of the year that has an audit
ListYear(rem, year) ==
    LET dates == {rem[k].audit_date : k \in {j \in 1..Len(rem) : rem[j].live}}
    IN  {[date |-> d,
          internal |-> LiveOn(rem, "internal", d),
          external |-> LiveOn(rem, "external", d),
          total |-> LiveOn(rem, "internal", d) + LiveOn(rem, "external", d)]
         : d \in {x \in dates : x[1] = year}}

\* POST /audits is accepted for a known category and a dated record
Accepts(body) == body.audit_type \in VALID_AUDIT_TYPES /\ body.audit_date # NoDate
Stored(rem, body) ==
    Append(rem, [audit_type |-> body.audit_type, title |-> body.title,
                 description |-> body.description,
                 audit_date |-> body.audit_date,
                 offlineId |-> body.offlineId, live |-> TRUE])
\* PUT and DELETE /audits/{id} find a live audit or answer 404
Found(rem, id) == id \in 1..Len(rem) /\ rem[id].live
Updated(rem, id, partial) ==
    [rem EXCEPT ![id].audit_date =
        IF partial.audit_date = NoDate THEN @ ELSE partial.audit_date]
Deleted(rem, id) == [rem EXCEPT ![id].live = FALSE]

(***************************************************************************)
(* The calls in flight.  A call is suspended at an await of                *)
(* heatmapApiRequest: pc "fetch" awaits fetch(), pc "body" awaits          *)
(* response.json() of a 2xx response.  What follows an await up to the     *)
(* next one, or to the end of the call and of its caller, runs in one step.*)
(***************************************************************************)
Slots == 1..MaxTasks
NoArg == [none |-> TRUE]
\* res is the body the pending request was answered with, ret the value the
\* call returns once its refresh is over
Idle == [kind |-> "idle", stage |-> "", pc |-> "", year |-> 0,
         arg |-> NoArg, res |-> NoArg, ret |-> NoArg]
NothingDone ==
    [kind |-> "none", arg |-> NoArg, outcome |-> "", value |-> NoArg,
     load |-> "none", map |-> EmptyMap, error |-> ""]

Categories == VALID_AUDIT_TYPES \cup {"other"}
D2024 == <<2024, 12, 31>>
D2025 == <<2025, 1, 1>>
AuditDates == {D2024, D2025}
Titles == {<<"<", "b", ">">>}
Descriptions == {<<"&", "\"", "'">>}
Proposal(date) ==
    [title |-> CHOOSE t \in Titles : TRUE,
     description |-> CHOOSE t \in Descriptions : TRUE, date |-> date]
\* the submit handler (script.js:464-505) passes its own category and a
\* proposal that validateAuditData accepts; the other calls are the ones no
\* form can make: an unknown category, a proposal without a date
CreateCalls ==
    {[type |-> type, auditData |-> Proposal(D2025), form |-> TRUE]
        : type \in VALID_AUDIT_TYPES}
    \cup {[type |-> "other", auditData |-> Proposal(D2025), form |-> FALSE],
          [type |-> "internal", auditData |-> Proposal(NoDate), form |-> FALSE]}
IdArgs == {<<>>, <<-1>>, <<0>>, <<1>>}
Partials == {[title |-> Undefined, audit_date |-> D2025],
             [title |-> <<" ">>, audit_date |-> NoDate]}

\* auditId < 0 for auditId <= 0
InvalidIdStrict(auditId) == auditId = <<>> \/ auditId[1] < 0

\* !auditId || auditId <= 0
InvalidId(auditId) == auditId = <<>> \/ auditId[1] = 0 \/ auditId[1] <= 0

InitialStorage ==
    {AbsentItem,
     JsonStringify([internal |-> <<>>,
                    external |-> <<[id |-> 1, title |-> <<"x">>,
                                    description |-> <<>>, date |-> D2024,
                                    createdAt |-> 1]>>])}
InitialRemote ==
    <<[audit_type |-> "internal", title |-> <<"a">>, description |-> <<>>,
       audit_date |-> D2024, offlineId |-> 0, live |-> TRUE]>>

Years == HEATMAP_START_YEAR..HEATMAP_CURRENT_YEAR

\* heatmapInit has run up to its first await: the /health request is out
Init ==
    /\ heatmapSelectedYear = HEATMAP_CURRENT_YEAR
    /\ heatmapActiveFilters = AllFilters
    /\ heatmapData = EmptyMap
    /\ heatmapIsOnline = TRUE
    /\ storage \in InitialStorage
    /\ remote = InitialRemote
    /\ tasks = [s \in Slots |->
                  IF s = 1
                  THEN [Idle EXCEPT !.kind = "init", !.stage = "health", !.pc = "fetch"]
                  ELSE Idle]
    /\ now = 2
    /\ grid = NotRendered
    /\ done = NothingDone
    /\ ops = 0
    /\ authority = NoAuthority
    /\ tz = CHOOSE z \in TimeZones : z.name = "UTC"
    /\ surface = Blank
    /\ form = NoForm

(***************************************************************************)
(* API FUNCTIONS (script.js:146-303): what runs after an await, as the     *)
(* effect it has on the state                                              *)
(***************************************************************************)
Keep(t) ==
    [online |-> heatmapIsOnline, data |-> heatmapData, storage |-> storage,
     now |-> now, authority |-> authority, task |-> t, done |-> done,
     render |-> FALSE]

Completed(t, outcome, value, load, map, error) ==
    [kind |-> t.kind, arg |-> t.arg, outcome |-> outcome, value |-> value,
     load |-> load, map |-> map, error |-> error]

\* data.forEach(item => heatmapData[item.date] = {...}) on a fresh object
LoadSuccess(items) ==
    [d \in {item.date : item \in items} |->
        LET item == CHOOSE i \in items : i.date = d
        IN  [internal |-> item.internal, external |-> item.external,
             total |-> item.total]]

\* a catch that returns heatmapData without reading the offline store
LoadFallbackStale(stored, data) == data

\* the catch of heatmapLoadHeatmapData: return heatmapLoadDataOffline()
LoadFallback(stored, data) == heatmapLoadDataOffline(stored, data)

\* a create that first resends the oldest record of the offline store
CreateRequestBodyResend(type, auditData, stored) ==
    LET pending == stored.doc.internal \o stored.doc.external
    IN  IF pending = <<>>
        THEN [audit_type |-> type, title |-> auditData.title,
              description |-> auditData.description,
              audit_date |-> auditData.date, offlineId |-> 0]
        ELSE [audit_type |-> "internal", title |-> pending[1].title,
              description |-> pending[1].description,
              audit_date |-> pending[1].date, offlineId |-> pending[1].id]

\* the body of the POST of heatmapCreateAudit; offlineId is the id of the
\* stored record the body was built from, 0 as it is built from the proposal
CreateRequestBody(type, auditData, stored) ==
    [audit_type |-> type, title |-> auditData.title,
     description |-> auditData.description, audit_date |-> auditData.date,
     offlineId |-> 0]

\* the catch of heatmapCreateAudit: return heatmapCreateAuditOffline(...)
CreateFallback(type, auditData, stored, data, clock) ==
    heatmapCreateAuditOffline(type, auditData, stored, data, clock)

\* a catch that degrades to the offline store as the read and create paths do
UpdateCatchFallback(error, stored, data) ==
    [outcome |-> "returned", value |-> Null,
     storage |-> stored, data |-> heatmapLoadDataOffline(stored, data)]

\* the catch of heatmapUpdateAudit and of heatmapDeleteAudit: throw error
heatmapUpdateAuditCatch(error, stored, data) ==
    [outcome |-> "threw", value |-> [error |-> error],
     storage |-> stored, data |-> data]
heatmapDeleteAuditCatch(error, stored, data) ==
    [outcome |-> "threw", value |-> [error |-> error],
     storage |-> stored, data |-> data]

\* a check that takes any answer of the service for a healthy one
HealthStatusAny(health) == TRUE

\* health.status === 'healthy'
HealthStatus(health) == health.status = "healthy"

\* heatmapCheckHealth returns value, after a request that threw error or ""
CheckedHealth(value, error) ==
    [kind |-> "health", arg |-> NoArg, outcome |-> "returned",
     value |-> [ok |-> value], load |-> "none", map |-> EmptyMap,
     error |-> error]

\* a refresh of the current year, whatever year is selected
IssueLoadCurrentYear(t) ==
    [t EXCEPT !.stage = "load", !.pc = "fetch", !.year = HEATMAP_CURRENT_YEAR]

\* heatmapLoadHeatmapData(heatmapSelectedYear) up to its await
IssueLoad(t) ==
    [t EXCEPT !.stage = "load", !.pc = "fetch", !.year = heatmapSelectedYear]

\* the end of heatmapLoadHeatmapData and of the call it ends: heatmapInit and
\* heatmapSelectYear render, the submit handler navigates home, which renders
AfterLoad(t, e, source) ==
    [e EXCEPT !.task = Idle,
              !.done = Completed(t, "returned",
                                 t.ret,
                                 source, e.data, ""),
              !.render = \/ t.kind \in {"init", "select"}
                         \/ t.kind = "create" /\ t.arg.form]

\* heatmapApiRequest returned the parsed body t.res
OnSuccess(t) ==
    CASE t.stage = "health" ->
            [Keep(t) EXCEPT !.online = HealthStatus(t.res),
                            !.task = IssueLoad(t),
                            !.done = CheckedHealth(HealthStatus(t.res), "")]
      [] t.stage = "load" ->
            AfterLoad(t, [Keep(t) EXCEPT !.data = LoadSuccess(t.res.items),
                                         !.authority = [source |-> "remote",
                                                        year |-> t.year]],
                      "remote")
      [] OTHER -> [Keep(t) EXCEPT !.task = [IssueLoad(t) EXCEPT !.ret = t.res]]

\* the catch of heatmapCreateAudit, from the state e
CreateCaught(t, e, error, clock) ==
    LET r == CreateFallback(t.arg.type, t.arg.auditData, e.storage, e.data, clock)
        wrote == r.storage # e.storage
    IN  [e EXCEPT !.data = r.data,
                  !.storage = r.storage,
                  !.now = IF wrote THEN clock ELSE now,
                  !.authority = IF wrote
                                THEN [source |-> "offline", year |-> authority.year]
                                ELSE authority,
                  !.task = Idle,
                  !.done = Completed(t, r.outcome, r.value, "none", EmptyMap, error),
                  !.render = t.arg.form /\ r.outcome = "returned"]

\* the catch of heatmapUpdateAudit or heatmapDeleteAudit, from the state e
WriteCaught(t, e, error) ==
    LET r == IF t.kind = "update"
             THEN heatmapUpdateAuditCatch(error, e.storage, e.data)
             ELSE heatmapDeleteAuditCatch(error, e.storage, e.data)
    IN  [e EXCEPT !.data = r.data,
                  !.storage = r.storage,
                  !.task = Idle,
                  !.done = Completed(t, r.outcome, r.value, "none", EmptyMap, error)]

\* a heatmapInit without its catch: the failure escapes as it does from
\* heatmapSelectYear
LoadThrewUncaught(t, e, clock) ==
    CASE t.kind \in {"init", "select"} ->
            [e EXCEPT !.task = Idle,
                      !.done = Completed(t, "threw", [error |-> "TypeError"],
                                         "none", EmptyMap, "TypeError")]
      [] t.kind = "create" -> CreateCaught(t, e, "TypeError", clock)
      [] OTHER -> WriteCaught(t, e, "TypeError")

\* heatmapLoadDataOffline threw in the catch of heatmapLoadHeatmapData: the
\* caller's catch runs; heatmapSelectYear has none and rejects
LoadThrew(t, e, clock) ==
    CASE t.kind = "init" ->
            \* Graceful degradation - show offline mode
            [e EXCEPT !.online = FALSE,
                      !.task = Idle,
                      !.done = Completed(t, "returned", t.ret, "none", EmptyMap,
                                         "TypeError"),
                      !.render = TRUE]
      [] t.kind = "select" ->
            [e EXCEPT !.task = Idle,
                      !.done = Completed(t, "threw", [error |-> "TypeError"],
                                         "none", EmptyMap, "TypeError")]
      [] t.kind = "create" -> CreateCaught(t, e, "TypeError", clock)
      [] OTHER -> WriteCaught(t, e, "TypeError")

\* heatmapApiRequest threw error, having set heatmapIsOnline = false
OnFailure(t, error, clock) ==
    LET off == [Keep(t) EXCEPT !.online = FALSE]
    IN  CASE t.stage = "health" ->
                [off EXCEPT !.task = IssueLoad(t),
                            !.done = CheckedHealth(FALSE, error)]
          [] t.stage = "load" /\ heatmapLoadDataOfflineThrows(storage) ->
                LoadThrew(t, [off EXCEPT !.data = LoadFallback(storage, heatmapData)],
                          clock)
          [] t.stage = "load" ->
                AfterLoad(t, [off EXCEPT !.data = LoadFallback(storage, heatmapData),
                                         !.authority = [source |-> "offline",
                                                        year |-> t.year]],
                          "offline")
          [] t.kind = "create" -> CreateCaught(t, off, error, clock)
          [] OTHER -> WriteCaught(t, off, error)

\* heatmapRenderGrid reads the selected year, the map, the filter and, in
\* updateConnectionStatus, the connectivity flag
Drawn(data, online, auth) ==
    [year |-> heatmapSelectedYear, data |-> data,
     filters |-> heatmapActiveFilters, authority |-> auth, online |-> online]

Apply(s, e) ==
    /\ heatmapIsOnline' = e.online
    /\ heatmapData' = e.data
    /\ storage' = e.storage
    /\ now' = e.now
    /\ authority' = e.authority
    /\ tasks' = [tasks EXCEPT ![s] = e.task]
    /\ done' = e.done
    /\ grid' = IF e.render THEN Drawn(e.data, e.online, e.authority) ELSE grid
    /\ UNCHANGED <<heatmapSelectedYear, heatmapActiveFilters, ops, tz, surface, form>>

(***************************************************************************)
(* The requests: what the service does with the request of a call          *)
(***************************************************************************)
IsWrite(t) == t.stage = "write"
ServerAccepts(t) ==
    CASE ~IsWrite(t) -> TRUE
      [] t.kind = "create" -> Accepts(t.arg.body)
      [] OTHER -> Found(remote, t.arg.id[1])
Applied(t) ==
    CASE ~IsWrite(t) -> remote
      [] t.kind = "create" -> Stored(remote, t.arg.body)
      [] t.kind = "update" -> Updated(remote, t.arg.id[1], t.arg.partial)
      [] OTHER -> Deleted(remote, t.arg.id[1])
Response(t, status) ==
    CASE t.stage = "health" -> [status |-> status]
      [] t.stage = "load" -> [items |-> ListYear(remote, t.year)]
      [] t.kind = "create" ->
            [id |-> Len(remote) + 1, audit_type |-> t.arg.body.audit_type,
             title |-> t.arg.body.title, audit_date |-> t.arg.body.audit_date]
      [] OTHER -> [id |-> t.arg.id[1]]

\* fetch() resolves with a 2xx response: heatmapIsOnline = true, then the
\* await of response.json()
HeadersOk(s, status) ==
    /\ tasks[s].pc = "fetch"
    /\ ServerAccepts(tasks[s])
    /\ remote' = Applied(tasks[s])
    /\ Apply(s, [Keep(tasks[s]) EXCEPT
                    !.online = TRUE,
                    !.task = [tasks[s] EXCEPT !.pc = "body",
                                              !.res = Response(tasks[s], status)]])

\* response.json() resolves
BodyOk(s) ==
    /\ tasks[s].pc = "body"
    /\ remote' = remote
    /\ Apply(s, OnSuccess(tasks[s]))

\* response.json() rejects: the body of the 2xx response is unreadable
BodyFail(s) ==
    /\ tasks[s].pc = "body"
    /\ remote' = remote
    /\ \E clock \in {now, now + 1} : Apply(s, OnFailure(tasks[s], "BodyError", clock))

\* fetch() rejects: the request or, with applied, its response was lost
NetFail(s, applied) ==
    /\ tasks[s].pc = "fetch"
    /\ applied => IsWrite(tasks[s]) /\ ServerAccepts(tasks[s])
    /\ remote' = IF applied THEN Applied(tasks[s]) ELSE remote
    /\ \E clock \in {now, now + 1} : Apply(s, OnFailure(tasks[s], "NetworkError", clock))

\* fetch() resolves with a non-2xx response: throw new Error(errorDetail)
HttpFail(s) ==
    /\ tasks[s].pc = "fetch"
    /\ remote' = remote
    /\ \E clock \in {now, now + 1} : Apply(s, OnFailure(tasks[s], "HttpError", clock))

(***************************************************************************)
(* The user's actions and the calls they start                             *)
(***************************************************************************)
HasFree == \E s \in Slots : tasks[s].kind = "idle"
Free == CHOOSE s \in Slots :
            tasks[s].kind = "idle" /\ \A r \in 1..(s - 1) : tasks[r].kind # "idle"
\* a call that is made only while the flag says reachable
StartIfOnline(t) ==
    /\ heatmapIsOnline
    /\ ops < MaxOps
    /\ HasFree
    /\ tasks' = [tasks EXCEPT ![Free] = t]
    /\ ops' = ops + 1

Start(t) ==
    /\ ops < MaxOps
    /\ HasFree
    /\ tasks' = [tasks EXCEPT ![Free] = t]
    /\ ops' = ops + 1

\* heatmapSelectYear up to the await of heatmapLoadHeatmapData(year)
SelectYear(year) ==
    /\ Start([Idle EXCEPT !.kind = "select", !.stage = "load", !.pc = "fetch",
                          !.year = year])
    /\ heatmapSelectedYear' = year
    /\ UNCHANGED <<heatmapActiveFilters, heatmapData, heatmapIsOnline, storage,
                   remote, now, grid, done, authority, tz, surface, form>>

\* heatmapCreateAudit up to the await of the POST
CreateAudit(c) ==
    /\ Start([Idle EXCEPT
                !.kind = "create", !.stage = "write", !.pc = "fetch",
                !.arg = [type |-> c.type, auditData |-> c.auditData,
                         form |-> c.form,
                         body |-> CreateRequestBody(c.type, c.auditData, storage)]])
    /\ UNCHANGED <<heatmapSelectedYear, heatmapActiveFilters, heatmapData,
                   heatmapIsOnline, storage, remote, now, grid, done, authority,
                   tz, surface, form>>

\* the checks of heatmapUpdateAudit before its try: the message thrown, or "";
\* errors.join(', ') is the only message when there is one
UpdateRejection(auditId, auditData) ==
    LET errors == validateAuditData(tz,
                      [title |-> auditData.title,
                       date |-> IF auditData.audit_date = NoDate
                                THEN IsoString(<<2025, 1, 1>>)
                                ELSE IsoString(auditData.audit_date)])
    IN  IF InvalidId(auditId) THEN "Invalid audit ID"
        ELSE IF auditData.title # Undefined /\ errors # <<>>
             THEN IF Len(errors) = 1 THEN errors[1] ELSE "several errors"
             ELSE ""
DeleteRejection(auditId) == IF InvalidId(auditId) THEN "Invalid audit ID" ELSE ""

\* a call that throws before its first await
Rejected(kind, arg, message) ==
    /\ ops < MaxOps
    /\ ops' = ops + 1
    /\ done' = [kind |-> kind, arg |-> arg, outcome |-> "threw",
                value |-> [error |-> message], load |-> "none",
                map |-> EmptyMap, error |-> ""]
    /\ UNCHANGED <<heatmapSelectedYear, heatmapActiveFilters, heatmapData,
                   heatmapIsOnline, storage, remote, tasks, now, grid, authority,
                   tz, surface, form>>

\* heatmapUpdateAudit up to the await of the PUT
UpdateAudit(auditId, auditData) ==
    LET arg == [id |-> auditId, partial |-> auditData]
        message == UpdateRejection(auditId, auditData)
    IN  IF message # ""
        THEN Rejected("update", arg, message)
        ELSE /\ Start([Idle EXCEPT !.kind = "update", !.stage = "write",
                                   !.pc = "fetch", !.arg = arg])
             /\ UNCHANGED <<heatmapSelectedYear, heatmapActiveFilters, heatmapData,
                            heatmapIsOnline, storage, remote, now, grid, done,
                            authority, tz, surface, form>>

\* heatmapDeleteAudit up to the await of the DELETE
DeleteAudit(auditId) ==
    LET arg == [id |-> auditId]
        message == DeleteRejection(auditId)
    IN  IF message # ""
        THEN Rejected("delete", arg, message)
        ELSE /\ Start([Idle EXCEPT !.kind = "delete", !.stage = "write",
                                   !.pc = "fetch", !.arg = arg])
             /\ UNCHANGED <<heatmapSelectedYear, heatmapActiveFilters, heatmapData,
                            heatmapIsOnline, storage, remote, now, grid, done,
                            authority, tz, surface, form>>

\* a toggle without the restoring branch
ToggledUnguarded(filters, type) == [filters EXCEPT ![type] = ~@]

\* FILTER TOGGLE (script.js:573-587): the filter heatmapToggleFilter leaves
Toggled(filters, type) ==
    LET flipped == [filters EXCEPT ![type] = ~@]
    IN  IF ~flipped.internal /\ ~flipped.external
        THEN [flipped EXCEPT ![type] = TRUE]
        ELSE flipped

\* heatmapToggleFilter returns before rendering when it restored the filter
heatmapToggleFilter(type) ==
    LET flipped == [heatmapActiveFilters EXCEPT ![type] = ~@]
        restored == ~flipped.internal /\ ~flipped.external
    IN  /\ heatmapActiveFilters' = Toggled(heatmapActiveFilters, type)
        /\ grid' = IF restored THEN grid
                   ELSE [Drawn(heatmapData, heatmapIsOnline, authority)
                            EXCEPT !.filters = heatmapActiveFilters']
        /\ UNCHANGED <<heatmapSelectedYear, heatmapData, heatmapIsOnline, storage,
                       remote, tasks, now, done, ops, authority, tz, surface, form>>

\* heatmapNavigateTo('home') re-renders the grid
NavigateHome ==
    /\ grid' = Drawn(heatmapData, heatmapIsOnline, authority)
    /\ UNCHANGED <<heatmapSelectedYear, heatmapActiveFilters, heatmapData,
                   heatmapIsOnline, storage, remote, tasks, now, done, ops,
                   authority, tz, surface, form>>

Next ==
    \/ \E s \in Slots : \E status \in {"healthy", "degraded"} :
          /\ tasks[s].stage # "health" => status = "healthy"
          /\ HeadersOk(s, status)
    \/ \E s \in Slots : BodyOk(s)
    \/ \E s \in Slots : BodyFail(s)
    \/ \E s \in Slots : \E applied \in BOOLEAN : NetFail(s, applied)
    \/ \E s \in Slots : HttpFail(s)
    \/ \E year \in Years : SelectYear(year)
    \/ \E c \in CreateCalls : CreateAudit(c)
    \/ \E auditId \in IdArgs : \E auditData \in Partials : UpdateAudit(auditId, auditData)
    \/ \E auditId \in IdArgs : DeleteAudit(auditId)
    \/ \E type \in VALID_AUDIT_TYPES : heatmapToggleFilter(type)
    \/ NavigateHome

Spec == Init /\ [][Next]_vars

(***************************************************************************)
(* Properties of the repository                                            *)
(***************************************************************************)
Completes(s) == tasks[s].kind # "idle" /\ tasks'[s].kind = "idle"
Quiescent == \A s \in Slots : tasks[s].kind = "idle"
\* the records of the offline store, absent or unreadable counting as empty
OfflineDocument(item) ==
    IF item.kind = "doc" THEN EnsureArrays(item.doc) ELSE EmptyDocument
OfflineRecords(item) ==
    {OfflineDocument(item).internal[k] : k \in 1..Len(OfflineDocument(item).internal)}
    \cup {OfflineDocument(item).external[k] : k \in 1..Len(OfflineDocument(item).external)}
\* the entries of an AggregateMap, as the items of a year listing
EntriesOf(map) ==
    {[date |-> d, internal |-> map[d].internal, external |-> map[d].external,
      total |-> map[d].total] : d \in DOMAIN map}

\* C1: a create of a known category whose remote attempt failed returns a
\* record that is persisted in the offline store, whatever the store held
C1_CreateFallsBack ==
    (done.kind = "create" /\ done.error # "" /\ done.arg.type \in VALID_AUDIT_TYPES)
        => /\ done.outcome = "returned"
           /\ \E k \in 1..Len(OfflineDocument(storage)[done.arg.type]) :
                 OfflineDocument(storage)[done.arg.type][k] = done.value

\* C2: when a loadYear completes, the in-memory map holds exactly the entries
\* of the source that served it: the items of the remote answer, or the tally
\* of the offline document (empty when the key is missing)
C2_FreshMap ==
    [][\A s \in Slots :
          (Completes(s) /\ tasks[s].stage = "load")
              => IF done'.load = "remote"
                 THEN EntriesOf(heatmapData') = tasks[s].res.items
                 ELSE heatmapData' = Tally(OfflineDocument(storage'))]_vars

\* C3: when the listing request of a loadYear fails, the loadYear returns,
\* without raising, the map a direct heatmapLoadDataOffline() returns in that
\* state, and that map is the in-memory map
C3_FallbackIsOfflineLoad ==
    [][\A s \in Slots :
          (Completes(s) /\ tasks[s].stage = "load" /\ done'.load = "offline")
              => /\ done'.outcome = "returned"
                 /\ done'.map = heatmapLoadDataOffline(storage, heatmapData)
                 /\ heatmapData' = done'.map]_vars

C3_Witness ==
    /\ done.kind = "select"
    /\ done.load = "offline"
    /\ done.error = ""
    /\ done.outcome = "returned"
    /\ storage.kind = "doc"
    /\ done.map = Tally(storage.doc)
    /\ D2024 \in DOMAIN done.map
    /\ heatmapData = done.map
    /\ ~heatmapIsOnline

\* C4: once no call is in flight, the grid shown is the grid of the selected
\* year, drawn from a map that was loaded for that year (the tally of the
\* offline store is the same for every year, a remote listing is not)
C4_GridConsistent ==
    (Quiescent /\ grid # NotRendered)
        => /\ grid.year = heatmapSelectedYear
           /\ grid.authority.source = "remote"
                 => grid.authority.year = heatmapSelectedYear

\* C5: an update or delete whose remote call fails raises that failure as it
\* is, takes no offline fallback and leaves the offline store and the
\* in-memory map as they were
C5_WriteFailureSurfaces ==
    [][\A s \in Slots :
          (Completes(s) /\ tasks[s].kind \in {"update", "delete"}
                        /\ tasks[s].stage = "write")
              => /\ done'.outcome = "threw"
                 /\ done'.error \in {"NetworkError", "HttpError", "BodyError"}
                 /\ done'.value = [error |-> done'.error]
                 /\ done'.load = "none"
                 /\ storage' = storage
                 /\ heatmapData' = heatmapData
                 /\ authority' = authority]_vars

C5_Witness ==
    /\ done.kind = "update"
    /\ done.outcome = "threw"
    /\ done.value = [error |-> "HttpError"]
    /\ ~heatmapIsOnline
    /\ heatmapData # EmptyMap
    /\ storage.kind = "doc"

NonPositive(auditId) == auditId = <<>> \/ auditId[1] <= 0

\* C6: an update or delete with an absent, zero or negative id fails with
\* 'Invalid audit ID' in the step that calls it: no request of such a call is
\* ever in flight, and the flag, the map and the store are left as they were
C6_InvalidIdFailsFast ==
    [][/\ \A s \in Slots :
             tasks'[s].kind \in {"update", "delete"}
                 => ~NonPositive(tasks'[s].arg.id)
       /\ (done' # done /\ done'.kind \in {"update", "delete"}
                        /\ NonPositive(done'.arg.id))
             => /\ done'.outcome = "threw"
                /\ done'.value = [error |-> "Invalid audit ID"]
                /\ UNCHANGED <<tasks, heatmapIsOnline, heatmapData, storage,
                               remote, authority>>]_vars

C6_Witness ==
    /\ done.kind = "delete"
    /\ done.arg.id = <<0>>
    /\ done.outcome = "threw"
    /\ done.value = [error |-> "Invalid audit ID"]
    /\ ops = 2
    /\ heatmapIsOnline

\* C7: the filter is never empty; toggling the only active category gives the
\* filter back as it was, any other toggle flips the toggled category alone
C7_FilterNeverEmpty ==
    /\ heatmapActiveFilters.internal \/ heatmapActiveFilters.external
    /\ grid # NotRendered => grid.filters.internal \/ grid.filters.external
    /\ \A type \in VALID_AUDIT_TYPES :
          LET other == CHOOSE o \in VALID_AUDIT_TYPES : o # type
              after == Toggled(heatmapActiveFilters, type)
          IN  IF heatmapActiveFilters[type] /\ ~heatmapActiveFilters[other]
              THEN after = heatmapActiveFilters
              ELSE /\ after[type] = ~heatmapActiveFilters[type]
                   /\ after[other] = heatmapActiveFilters[other]

\* a toggle left external as the only active category and the grid was redrawn
C7_Witness ==
    /\ heatmapActiveFilters = [internal |-> FALSE, external |-> TRUE]
    /\ grid.filters = heatmapActiveFilters
    /\ grid.year # 0

\* C8: no audit of the remote service was sent from a record of the offline
\* store, also after connectivity was lost and restored
C8_OfflineStaysLocal ==
    \A k \in 1..Len(remote) :
        remote[k].offlineId = 0

\* an offline create, then a create that the service stored
C8_Witness ==
    /\ Len(remote) = 2
    /\ \E r \in OfflineRecords(storage) : r.id >= 2
    /\ done.kind = "create"
    /\ done.load = "remote"
    /\ heatmapIsOnline

\* the HTML entity of a character that has one
Entity(c) ==
    CASE c = "&" -> <<"&", "a", "m", "p", ";">>
      [] c = "<" -> <<"&", "l", "t", ";">>
      [] c = ">" -> <<"&", "g", "t", ";">>
      [] c = "\"" -> <<"&", "q", "u", "o", "t", ";">>
      [] c = "'" -> <<"&", "#", "x", "2", "7", ";">>
      [] OTHER -> <<c>>
\* a text with each of its characters replaced by its entity
RECURSIVE Escaped(_)
Escaped(text) ==
    IF text = <<>> THEN <<>> ELSE Entity(Head(text)) \o Escaped(Tail(text))
Raw(text) == {text[k] : k \in 1..Len(text)} \cap {"<", ">", "\"", "'"}

\* C14: the record a create returns from the offline fallback carries a
\* generated id, the title and the description of the proposal with each of
\* & < > " ' replaced by its entity, so without a raw < > " or ', and is a
\* record of the offline store
C14_FallbackSanitizes ==
    (done.kind = "create" /\ done.error # "" /\ done.outcome = "returned"
                          /\ done.value # Null)
        => /\ done.value.id \in 2..now
           /\ done.value.title = Escaped(done.arg.auditData.title)
           /\ done.value.description = Escaped(done.arg.auditData.description)
           /\ Raw(done.value.title) = {}
           /\ Raw(done.value.description) = {}
           /\ \E k \in 1..Len(OfflineDocument(storage)[done.arg.type]) :
                 OfflineDocument(storage)[done.arg.type][k] = done.value

\* <b> and &"' came back escaped from a create that fell back
C14_Witness ==
    /\ done.kind = "create"
    /\ done.error = "HttpError"
    /\ done.outcome = "returned"
    /\ done.value # Null
    /\ done.arg.auditData.title = <<"<", "b", ">">>
    /\ done.value.title = <<"&", "l", "t", ";", "b", "&", "g", "t", ";">>
    /\ done.arg.auditData.description = <<"&", "\"", "'">>
    /\ done.value.description =
          <<"&", "a", "m", "p", ";", "&", "q", "u", "o", "t", ";",
            "&", "#", "x", "2", "7", ";">>
    /\ storage.kind = "doc"
    /\ storage.doc.external[Len(storage.doc.external)] = done.value

\* C18: heatmapCheckHealth never raises: it returns true exactly when its
\* request succeeded with the status "healthy", false when the request failed
\* or the status is another one, heatmapIsOnline is the value it returns, and
\* its caller goes on to load the year
C18_HealthNeverRaises ==
    [][\A s \in Slots :
          (tasks[s].stage = "health" /\ tasks'[s].stage # "health")
              => /\ done'.kind = "health"
                 /\ done'.outcome = "returned"
                 /\ done'.value.ok \in BOOLEAN
                 /\ heatmapIsOnline' = done'.value.ok
                 /\ done'.value.ok <=> (/\ done'.error = ""
                                         /\ tasks[s].pc = "body"
                                         /\ tasks[s].res.status = "healthy")
                 /\ tasks'[s].kind = tasks[s].kind
                 /\ tasks'[s].stage = "load"]_vars

\* the service answered the health request with another status
C18_Witness ==
    /\ done.kind = "health"
    /\ done.error = ""
    /\ done.value = [ok |-> FALSE]
    /\ ~heatmapIsOnline
    /\ \E s \in Slots : tasks[s].kind = "init" /\ tasks[s].stage = "load"

\* C19: after overlapping year selections have all completed, the year the
\* grid shows and the map it is drawn from are those of the load that
\* completed last
C19_LastLoadWins ==
    (Quiescent /\ done.kind = "select" /\ done.outcome = "returned")
        => /\ grid.year = authority.year
           /\ grid.authority = authority
           /\ grid.data = heatmapData

\* the request of the call in slot s completes in this step
RequestSucceeds(s) ==
    /\ tasks[s].pc = "body"
    /\ CASE tasks[s].stage = "health" ->
               tasks'[s].stage = "load" /\ done'.kind = "health" /\ done'.error = ""
         [] tasks[s].stage = "load" ->
               tasks'[s].kind = "idle" /\ done'.load = "remote"
         [] OTHER -> tasks'[s].stage = "load"
RequestFails(s) ==
    /\ tasks[s].pc \in {"fetch", "body"}
    /\ tasks'[s] # tasks[s]
    /\ ~RequestSucceeds(s)
    /\ ~(tasks[s].pc = "fetch" /\ tasks'[s].pc = "body"
                               /\ tasks'[s].stage = tasks[s].stage)

\* C20: when a request made through heatmapApiRequest completes, the flag is
\* its outcome: reachable after a 2xx answer with a readable body,
\* unreachable after a failure, for every operation, the health check included
C20_FlagIsLastOutcome ==
    [][\A s \in Slots :
          /\ RequestSucceeds(s) => heatmapIsOnline'
          /\ RequestFails(s) => ~heatmapIsOnline']_vars

C22_RefreshAfterWrite ==
    [][\A s \in Slots :
          tasks[s].kind \in {"create", "update", "delete"} =>
              /\ (tasks[s].stage = "write" /\ tasks'[s].stage = "load") =>
                    /\ RequestSucceeds(s)
                    /\ tasks'[s].pc = "fetch"
                    /\ tasks'[s].year = heatmapSelectedYear
                    /\ tasks'[s].ret = tasks[s].res
                    /\ done' = done
              /\ (tasks[s].stage = "write" /\ tasks[s].pc = "body"
                     /\ tasks'[s] # tasks[s] /\ ~RequestFails(s)) =>
                    tasks'[s].stage = "load"
              /\ (tasks[s].stage = "write" /\ RequestFails(s)) =>
                    /\ tasks'[s].kind = "idle"
                    /\ done'.load = "none"
                    /\ remote' = remote \/ tasks[s].pc = "fetch"
              /\ (Completes(s) /\ tasks[s].stage = "load") =>
                    /\ tasks[s].pc = "body" \/ RequestFails(s)
                    /\ done'.kind = tasks[s].kind
                    /\ done'.outcome = "returned"
                    /\ done'.value = tasks[s].ret
                    /\ done'.load \in {"remote", "offline"}
                    /\ done'.map = heatmapData'
              /\ (Completes(s) /\ tasks[s].stage = "write") => RequestFails(s)]_vars

\* the refresh of a delete is in flight for the year selected after the
\* delete was called
C22_Witness ==
    /\ heatmapSelectedYear = HEATMAP_START_YEAR
    /\ \E s \in Slots :
          /\ tasks[s].kind = "delete"
          /\ tasks[s].stage = "load"
          /\ tasks[s].year = HEATMAP_START_YEAR
          /\ tasks[s].ret # NoArg
    /\ \E s \in Slots : tasks[s].kind = "select"

\* C24: in every state an offline create called with a category that is
\* neither internal nor external would return null and leave the store and
\* the map as they are; and when the request of a repository create of such a
\* category fails, the call returns null, nothing is thrown, and the store
\* and the map are unchanged
C24_UnknownCategory ==
    /\ [](\A type \in Categories \ VALID_AUDIT_TYPES :
            \A date \in AuditDates \cup {NoDate} :
                heatmapCreateAuditOffline(type, Proposal(date), storage,
                                          heatmapData, now)
                    = [outcome |-> "returned", value |-> Null,
                       storage |-> storage, data |-> heatmapData])
    /\ [][\A s \in Slots :
            (/\ tasks[s].kind = "create"
             /\ tasks[s].arg.type \notin VALID_AUDIT_TYPES
             /\ RequestFails(s))
                => /\ Completes(s)
                   /\ done'.kind = "create"
                   /\ done'.arg.type = tasks[s].arg.type
                   /\ done'.outcome = "returned"
                   /\ done'.value = Null
                   /\ storage' = storage
                   /\ heatmapData' = heatmapData]_vars

\* a create of an unknown category was refused by the service and returned
\* null, with records in the offline store and entries in the map
C24_Witness ==
    /\ done.kind = "create"
    /\ done.arg.type = "other"
    /\ done.outcome = "returned"
    /\ done.value = Null
    /\ done.error = "HttpError"
    /\ storage # AbsentItem
    /\ heatmapData # EmptyMap

\* C25: every entry of heatmapData has natural numbers as its internal and
\* external counts and their sum as its total, and so has every entry of the
\* map the last year load returned
C25_AggregateShape ==
    /\ \A d \in DOMAIN heatmapData :
          /\ heatmapData[d].internal \in Nat
          /\ heatmapData[d].external \in Nat
          /\ heatmapData[d].total = heatmapData[d].internal + heatmapData[d].external
    /\ \A d \in DOMAIN done.map :
          /\ done.map[d].internal \in Nat
          /\ done.map[d].external \in Nat
          /\ done.map[d].total = done.map[d].internal + done.map[d].external

\* the map was tallied from an offline store that holds an internal and an
\* external record of one date, while the listing of a year load is being read
C25_Witness ==
    /\ authority.source = "offline"
    /\ \E d \in DOMAIN heatmapData :
          /\ heatmapData[d].internal = 1
          /\ heatmapData[d].external = 1
          /\ heatmapData[d].total = 2
    /\ \E s \in Slots : tasks[s].stage = "load" /\ tasks[s].pc = "body"

\* C26: no two records of the offline store, across both category lists,
\* have the same id
C26_UniqueIds ==
    LET records == OfflineDocument(storage).internal
                   \o OfflineDocument(storage).external
    IN  \A i, j \in 1..Len(records) : i # j => records[i].id # records[j].id

\* C27: a create whose record the service has stored (its POST was answered
\* 2xx, or is applied in this step though its response is lost) never appends
\* that record to the offline store as well
C27_OneStore ==
    [][\A s \in Slots :
          (/\ tasks[s].kind = "create"
           /\ tasks'[s] # tasks[s]
           /\ \/ tasks[s].stage = "load"
              \/ tasks[s].stage = "write" /\ tasks[s].pc = "body"
              \/ tasks[s].stage = "write" /\ remote' # remote)
              => storage' = storage]_vars

\* C28: when a year load completes with no other call in flight, the flag is
\* reachable exactly if the map was built from the listing of the service and
\* unreachable exactly if it was built by the offline fallback
C28_FlagTellsSource ==
    [][\A s \in Slots :
          (/\ tasks[s].stage = "load"
           /\ Completes(s)
           /\ \A r \in Slots \ {s} : tasks[r].kind = "idle") =>
              /\ heatmapIsOnline' <=> done'.load = "remote"
              /\ ~heatmapIsOnline' <=> done'.load = "offline"]_vars

(***************************************************************************)
(* The grid synthesis as a function of its inputs: the selected year, the  *)
(* AggregateMap, the filter and the browser's time zone                    *)
(***************************************************************************)
\* an AggregateMap with entries on both sides of both ends of the year
BoundaryMap(year) ==
    [d \in {<<year - 1, 12, 31>>, <<year, 1, 1>>, <<year, 12, 31>>, <<year + 1, 1, 1>>}
        |-> IF d[1] = year
            THEN [internal |-> d[2], external |-> 2, total |-> d[2] + 2]
            ELSE [internal |-> 1, external |-> 0, total |-> 1]]

\* an AggregateMap whose days of June hold 0..MaxCount internal audits and 2
\* external ones, and whose July 1 holds 100 internal audits
CountMap(year) ==
    [d \in {<<year, 6, 10 + n>> : n \in 0..MaxCount} \cup {<<year, 7, 1>>}
        |-> IF d[2] = 6
            THEN [internal |-> d[3] - 10, external |-> 2, total |-> d[3] - 8]
            ELSE [internal |-> 100, external |-> 0, total |-> 100]]

FilterStates ==
    {f \in [internal : BOOLEAN, external : BOOLEAN] : f.internal \/ f.external}

InitGrid ==
    /\ heatmapSelectedYear \in GridYears
    /\ heatmapActiveFilters \in FilterStates
    /\ heatmapData \in {EmptyMap, BoundaryMap(heatmapSelectedYear),
                        CountMap(heatmapSelectedYear)}
    /\ tz \in TimeZones
    /\ surface = Blank
    /\ heatmapIsOnline = TRUE
    /\ storage = AbsentItem /\ remote = <<>> /\ tasks = [s \in Slots |-> Idle]
    /\ now = 0 /\ grid = NotRendered /\ done = NothingDone /\ ops = 0
    /\ authority = NoAuthority
    /\ form = NoForm

Synthesize ==
    /\ surface = Blank
    /\ surface' = heatmapRenderGrid(tz, heatmapSelectedYear, heatmapData,
                                    heatmapActiveFilters)
    /\ UNCHANGED <<heatmapSelectedYear, heatmapActiveFilters, heatmapData,
                   heatmapIsOnline, storage, remote, tasks, now, grid, done,
                   ops, authority, tz, form>>

NextGrid == Synthesize

GridSpec == InitGrid /\ [][NextGrid]_vars

Rendered == surface # Blank
FirstCell == surface.grid[1]
LastCell == surface.grid[Len(surface.grid)]
\* lexicographic order of calendar dates <<y, m, d>>
DateLeq(a, b) ==
    \/ a[1] < b[1]
    \/ a[1] = b[1] /\ a[2] < b[2]
    \/ a[1] = b[1] /\ a[2] = b[2] /\ a[3] <= b[3]

\* C9: the grid of every year has a multiple of 7 cells, starts on a Sunday
\* on or before January 1 and ends on a Saturday on or after December 31
\* (the days are those of the cell's Date in the browser's time zone)
C9_WholeWeeks ==
    Rendered =>
        /\ Len(surface.grid) % 7 = 0
        /\ Len(surface.grid) > 0
        /\ FirstCell.day = 0
        /\ DateLeq(FirstCell.local, <<surface.year, 1, 1>>)
        /\ LastCell.day = 6
        /\ DateLeq(<<surface.year, 12, 31>>, LastCell.local)

\* a leap year starting on a Saturday needs 54 week columns
C9_Witness ==
    /\ Rendered
    /\ surface.year = 2000
    /\ Len(surface.grid) = 54 * 7
    /\ tz.dst = "south"
    /\ FirstCell.local = <<1999, 12, 26>>
    /\ LastCell.local = <<2001, 1, 6>>

\* the calendar dates of a year, as ISO dates
DatesOfYear(year) ==
    {CivilFromDays[n] : n \in DaysFromCivil[year, 1, 1]..DaysFromCivil[year, 12, 31]}
\* the cells that carry the ISO date d and are shown as days of the grid year
InYearCells(d) ==
    {k \in 1..Len(surface.grid) : surface.grid[k].date = d /\ ~surface.grid[k].hidden}

\* C10: every date of the grid year is the date of exactly one in-year cell,
\* and every cell dated in an adjacent year is marked not in-year
C10_OneCellPerDate ==
    Rendered =>
        /\ \A d \in DatesOfYear(surface.year) : Cardinality(InYearCells(d)) = 1
        /\ \A k \in 1..Len(surface.grid) :
              surface.grid[k].date[1] # surface.year => surface.grid[k].hidden

\* C23: there is one month label per week column; it is the name of the month
\* of the date three days into the week when the column is the first whose
\* such date lies in that month and in the grid year, and empty otherwise; so
\* each of the twelve names labels exactly one column, the columns of
\* successive months are in increasing order, and a week whose midpoint lies
\* outside the grid year has an empty label
C23_MonthLabels ==
    LET MidWeek(w) == surface.grid[7 * (w - 1) + 4].local
        FirstOfMonth(w) ==
            /\ MidWeek(w)[1] = surface.year
            /\ \A v \in 1..(w - 1) :
                  ~(MidWeek(v)[1] = surface.year /\ MidWeek(v)[2] = MidWeek(w)[2])
        ColumnsOf(label) ==
            {w \in 1..Len(surface.months) : surface.months[w] = label}
    IN
    Rendered =>
        /\ Len(surface.months) * 7 = Len(surface.grid)
        /\ \A w \in 1..Len(surface.months) :
              /\ surface.months[w] =
                    IF FirstOfMonth(w) THEN HEATMAP_MONTH_NAMES[MidWeek(w)[2]] ELSE ""
              /\ MidWeek(w)[1] # surface.year => surface.months[w] = ""
        /\ \A m \in 1..12 : Cardinality(ColumnsOf(HEATMAP_MONTH_NAMES[m])) = 1
        /\ \A m \in 1..11 :
              \A v \in ColumnsOf(HEATMAP_MONTH_NAMES[m]) :
                  \A w \in ColumnsOf(HEATMAP_MONTH_NAMES[m + 1]) : v < w

\* a grid whose first week has its midpoint in December of the year before
\* and whose last week has its midpoint in January of the year after
C23_Witness ==
    /\ Rendered
    /\ surface.grid[4].local[1] = surface.year - 1
    /\ surface.months[1] = ""
    /\ surface.months[2] = "Jan"
    /\ surface.grid[Len(surface.grid) - 3].local[1] = surface.year + 1
    /\ tz.dst = "north"

\* the level the thresholds of the heat map give a count
Bucket(count) ==
    CASE count = 0 -> 0
      [] count \in 1..2 -> 1
      [] count \in 3..4 -> 2
      [] count \in 5..7 -> 3
      [] count >= 8 -> 4
CellCounts == {surface.grid[k].count : k \in 1..Len(surface.grid)}
LevelsOf(count) ==
    {surface.grid[k].level : k \in {j \in 1..Len(surface.grid) : surface.grid[j].count = count}}

\* C11: every cell gets exactly one level of 0..4: 0 for count 0, 1 for 1-2,
\* 2 for 3-4, 3 for 5-7 and 4 for 8 or more; a larger count never gets a
\* lower level
C11_LevelBuckets ==
    Rendered =>
        /\ \A k \in 1..Len(surface.grid) :
              /\ surface.grid[k].count \in Nat
              /\ surface.grid[k].level \in 0..4
              /\ surface.grid[k].level = Bucket(surface.grid[k].count)
        /\ \A c \in CellCounts : Cardinality(LevelsOf(c)) = 1
        /\ \A c1 \in CellCounts : \A c2 \in CellCounts :
              c1 <= c2 => \A l1 \in LevelsOf(c1) : \A l2 \in LevelsOf(c2) : l1 <= l2

\* one grid with cells on every threshold and on both sides of it
C11_Witness ==
    /\ Rendered
    /\ {0, 1, 2, 3, 4, 5, 7, 8, 100} \subseteq CellCounts
    /\ LevelsOf(2) = {1} /\ LevelsOf(3) = {2}
    /\ LevelsOf(4) = {2} /\ LevelsOf(5) = {3}
    /\ LevelsOf(7) = {3} /\ LevelsOf(8) = {4}
    /\ LevelsOf(100) = {4}

\* the stored counts of a date, all zero for a date the map does not hold
StoredCounts(date) ==
    IF date \in DOMAIN heatmapData THEN heatmapData[date] ELSE NoAudits

\* C12: the count of an in-year cell is the sum of the stored counts of its
\* date over the active categories (an inactive category and a date absent
\* from the map count 0); a cell outside the grid year has count 0 and level 0
\* whatever the map holds for its date
C12_FilteredCount ==
    Rendered =>
        \A k \in 1..Len(surface.grid) :
            LET c == surface.grid[k]
            IN  /\ c.hidden <=> c.local[1] # surface.year
                /\ IF c.hidden
                   THEN c.count = 0 /\ c.level = 0
                   ELSE c.count =
                          (IF heatmapActiveFilters.internal
                           THEN StoredCounts(c.date).internal ELSE 0)
                          + (IF heatmapActiveFilters.external
                             THEN StoredCounts(c.date).external ELSE 0)

\* external audits filtered out of an in-year cell, and a stored entry of an
\* active category behind a cell outside the year
C12_Witness ==
    /\ Rendered
    /\ heatmapActiveFilters = [internal |-> TRUE, external |-> FALSE]
    /\ \E k \in 1..Len(surface.grid) :
          /\ surface.grid[k].hidden
          /\ StoredCounts(surface.grid[k].date).internal > 0
          /\ surface.grid[k].count = 0
    /\ \E k \in 1..Len(surface.grid) :
          /\ ~surface.grid[k].hidden
          /\ StoredCounts(surface.grid[k].date).external > 0
          /\ surface.grid[k].count = StoredCounts(surface.grid[k].date).internal
          /\ surface.grid[k].count > 0

(***************************************************************************)
(* The offline data source called on its own: heatmapLoadDataOffline and   *)
(* heatmapCreateAuditOffline on every kind of stored item                  *)
(***************************************************************************)
StoredRecord(id, date) ==
    [id |-> id, title |-> <<"x">>, description |-> <<>>, date |-> date,
     createdAt |-> id]
StoredItems ==
    {AbsentItem, CorruptItem, NullItem,
     JsonStringify(EmptyDocument),
     JsonStringify([internal |-> <<>>, external |-> <<StoredRecord(1, D2024)>>]),
     \* a record without a date field
     JsonStringify([internal |-> <<StoredRecord(1, NoDate), StoredRecord(1, D2025)>>,
                    external |-> <<>>]),
     \* an object whose property internal is not an array
     JsonStringify([external |-> <<StoredRecord(1, D2025)>>])}
\* the map an earlier remote listing left in heatmapData
StaleMap == [d \in {D2024} |-> [internal |-> 1, external |-> 0, total |-> 1]]

InitOffline ==
    /\ storage \in StoredItems
    /\ heatmapData \in {EmptyMap, StaleMap}
    /\ heatmapSelectedYear = HEATMAP_CURRENT_YEAR
    /\ heatmapActiveFilters = AllFilters
    /\ heatmapIsOnline = FALSE
    /\ remote = <<>> /\ tasks = [s \in Slots |-> Idle]
    /\ now = 2 /\ grid = NotRendered /\ done = NothingDone /\ ops = 0
    /\ authority = NoAuthority
    /\ tz = CHOOSE z \in TimeZones : z.name = "UTC"
    /\ surface = Blank
    /\ form = NoForm

\* heatmapLoadDataOffline()
LoadOffline ==
    /\ ops < MaxOps
    /\ ops' = ops + 1
    /\ heatmapData' = heatmapLoadDataOffline(storage, heatmapData)
    /\ done' = [kind |-> "loadOffline", arg |-> NoArg,
                outcome |-> IF heatmapLoadDataOfflineThrows(storage)
                            THEN "threw" ELSE "returned",
                value |-> IF heatmapLoadDataOfflineThrows(storage)
                          THEN [error |-> "TypeError"] ELSE NoArg,
                load |-> "offline", map |-> heatmapData', error |-> ""]
    /\ UNCHANGED <<heatmapSelectedYear, heatmapActiveFilters, heatmapIsOnline,
                   storage, remote, tasks, now, grid, authority, tz, surface, form>>

\* heatmapCreateAuditOffline(type, auditData) with Date.now() = clock
CreateOffline(c, clock) ==
    LET r == heatmapCreateAuditOffline(c.type, c.auditData, storage, heatmapData, clock)
    IN  /\ ops < MaxOps
        /\ ops' = ops + 1
        /\ storage' = r.storage
        /\ heatmapData' = r.data
        /\ now' = IF r.storage # storage THEN clock ELSE now
        /\ done' = [kind |-> "createOffline",
                    arg |-> [type |-> c.type, auditData |-> c.auditData],
                    outcome |-> r.outcome, value |-> r.value,
                    load |-> "none", map |-> EmptyMap, error |-> ""]
        /\ UNCHANGED <<heatmapSelectedYear, heatmapActiveFilters, heatmapIsOnline,
                       remote, tasks, grid, authority, tz, surface, form>>

NextOffline ==
    \/ LoadOffline
    \/ \E c \in CreateCalls : \E clock \in {now, now + 1} : CreateOffline(c, clock)

OfflineSpec == InitOffline /\ [][NextOffline]_vars

CountIn(map, date, type) == IF date \in DOMAIN map THEN map[date][type] ELSE 0

\* C13: an offline create of a dated proposal followed by an offline load
\* raises the count of the proposal's category on the proposal's date by one
\* over the tally of the store as it was (an absent key, an empty or an
\* unreadable store tallying to nothing) and changes no other count
C13_CreateThenLoad ==
    [][(ops' # ops /\ done'.kind = "createOffline"
                   /\ done'.arg.type \in VALID_AUDIT_TYPES
                   /\ done'.arg.auditData.date # NoDate)
          => LET before == Tally(OfflineDocument(storage))
                 after == heatmapLoadDataOffline(storage', heatmapData')
                 p == done'.arg.auditData
             IN  /\ done'.outcome = "returned"
                 /\ ~heatmapLoadDataOfflineThrows(storage')
                 /\ \A d \in DOMAIN before \cup DOMAIN after \cup {p.date} :
                       \A t \in VALID_AUDIT_TYPES :
                          CountIn(after, d, t) =
                             CountIn(before, d, t)
                             + (IF d = p.date /\ t = done'.arg.type THEN 1 ELSE 0)]_vars

\* C16: neither offline call raises; a load leaves the tally of the stored
\* document in the map, a create appends its record to the stored document,
\* where an absent key or a value that is not a document counts as the empty
\* document and a record without a date is left out of the tally
C16_MalformedIsEmpty ==
    [][ops' # ops
          => /\ done'.outcome = "returned"
             /\ done'.kind = "loadOffline"
                   => heatmapData' = Tally(OfflineDocument(storage))
             /\ (done'.kind = "createOffline" /\ done'.arg.type \in VALID_AUDIT_TYPES)
                   => OfflineDocument(storage') =
                         [OfflineDocument(storage) EXCEPT
                             ![done'.arg.type] = Append(@, done'.value)]]_vars

(***************************************************************************)
(* The submit handler of a form (script.js:464-505) up to its await, on    *)
(* every combination of a title and a date text                            *)
(***************************************************************************)
LongTitle(n) == [k \in 1..n |-> "x"]
FormTitles ==
    {<<>>, <<" ">>, <<"x">>, <<" ", "x", " ">>,
     LongTitle(MAX_TITLE_LENGTH), LongTitle(MAX_TITLE_LENGTH + 1)}
FormDateNumbers ==
    {<<2024, 1, 1>>, <<2024, 2, 29>>, <<2024, 2, 30>>, <<2023, 2, 29>>,
     <<2024, 13, 1>>, <<2024, 0, 10>>, <<2024, 4, 31>>, <<2024, 1, 0>>,
     <<2024, 1, 32>>, <<1900, 2, 29>>, <<2000, 2, 29>>, <<2024, 12, 31>>,
     <<2025, 3, 30>>, <<2025, 10, 26>>, <<50, 1, 1>>, <<99, 12, 31>>,
     <<100, 1, 1>>}
FormDates ==
    {IsoString(d) : d \in FormDateNumbers}
    \cup {<<>>,
          <<"2", "0", "2", "4", "-", "1", "-", "0", "1">>,
          <<"2", "0", "2", "4", "/", "0", "1", "/", "0", "1">>,
          <<"2", "0", "2", "4", "-", "0", "1", "-", "0", "1", " ">>,
          <<"0", "1", "-", "0", "1", "-", "2", "0", "2", "4">>}

InitForm ==
    /\ form \in [title : FormTitles, description : {<<>>}, date : FormDates,
                  errors : {<<>>}, submitted : {FALSE}]
    /\ tz \in TimeZones
    /\ heatmapSelectedYear = HEATMAP_CURRENT_YEAR
    /\ heatmapActiveFilters = AllFilters
    /\ heatmapData = EmptyMap
    /\ heatmapIsOnline = TRUE
    /\ storage = JsonStringify(EmptyDocument)
    /\ remote = InitialRemote
    /\ tasks = [s \in Slots |-> Idle]
    /\ now = 2 /\ grid = NotRendered /\ done = NothingDone /\ ops = 0
    /\ authority = NoAuthority
    /\ surface = Blank

\* the submit listener of handleFormSubmit(form, auditType, ...): the errors
\* are shown, or cleared and heatmapCreateAudit runs up to the await of its POST
handleFormSubmit(auditType) ==
    LET auditData == [title |-> form.title, description |-> form.description,
                      date |-> form.date]
        errors == validateAuditData(tz, auditData)
        proposal == [title |-> form.title, description |-> form.description,
                     date |-> SplitDate(form.date)]
    IN  /\ ~form.submitted
        /\ form' = [form EXCEPT !.errors = errors, !.submitted = TRUE]
        /\ IF errors # <<>>
           THEN UNCHANGED <<tasks, ops>>
           ELSE Start([Idle EXCEPT
                         !.kind = "create", !.stage = "write", !.pc = "fetch",
                         !.arg = [type |-> auditType, auditData |-> proposal,
                                  form |-> TRUE,
                                  body |-> CreateRequestBody(auditType, proposal,
                                                             storage)]])
        /\ UNCHANGED <<heatmapSelectedYear, heatmapActiveFilters, heatmapData,
                       heatmapIsOnline, storage, remote, now, grid, done,
                       authority, tz, surface>>

NextForm == \E auditType \in VALID_AUDIT_TYPES : handleFormSubmit(auditType)

FormSpec == InitForm /\ [][NextForm]_vars

LeapYear(y) == y % 4 = 0 /\ (y % 100 # 0 \/ y % 400 = 0)
DaysInMonth(y, m) ==
    CASE m = 2 -> IF LeapYear(y) THEN 29 ELSE 28
      [] m \in {4, 6, 9, 11} -> 30
      [] OTHER -> 31
\* <<y, m, d>> is a date of the calendar
RealDate(d) == d[2] \in 1..12 /\ d[3] \in 1..DaysInMonth(d[1], d[2])
TitleRule ==
    form.title # <<>> /\ ~Blank_(form.title) /\ Len(form.title) <= MAX_TITLE_LENGTH
DateRule == DATE_PATTERN(form.date) /\ RealDate(SplitDate(form.date))
Shown(message) == \E k \in 1..Len(form.errors) : form.errors[k] = message

\* C15: a proposal is reported valid exactly when its title is not blank and
\* has at most 255 characters and its date has the form YYYY-MM-DD and is a
\* date of the calendar; a blank title gets the title-required error, a
\* well-formed date that is no calendar date the invalid-date-value error,
\* and a proposal that breaks both rules gets two errors
C15_ValidExactly ==
    form.submitted =>
        /\ (form.errors = <<>>) <=> (TitleRule /\ DateRule)
        /\ (form.title = <<>> \/ Blank_(form.title)) => Shown("Title is required")
        /\ (DATE_PATTERN(form.date) /\ ~RealDate(SplitDate(form.date)))
              => Shown("Invalid date value")
        /\ (~TitleRule /\ ~DateRule) => Len(form.errors) = 2

(***************************************************************************)
(* The page load: heatmapInit on every kind of stored item, with year      *)
(* selections and filter toggles of the user in between, every request     *)
(* being answered or failing in the end                                    *)
(***************************************************************************)
InitBoot ==
    /\ heatmapSelectedYear = HEATMAP_CURRENT_YEAR
    /\ heatmapActiveFilters = AllFilters
    /\ heatmapData = EmptyMap
    /\ heatmapIsOnline = TRUE
    /\ storage \in InitialStorage \cup {CorruptItem, NullItem}
    /\ remote = InitialRemote
    /\ tasks = [s \in Slots |->
                  IF s = 1
                  THEN [Idle EXCEPT !.kind = "init", !.stage = "health", !.pc = "fetch"]
                  ELSE Idle]
    /\ now = 2
    /\ grid = NotRendered
    /\ done = NothingDone
    /\ ops = 0
    /\ authority = NoAuthority
    /\ tz = CHOOSE z \in TimeZones : z.name = "UTC"
    /\ surface = Blank
    /\ form = NoForm

\* the request of the call in slot s is answered or fails
Respond(s) ==
    \/ \E status \in {"healthy", "degraded"} :
          /\ tasks[s].stage # "health" => status = "healthy"
          /\ HeadersOk(s, status)
    \/ BodyOk(s)
    \/ BodyFail(s)
    \/ NetFail(s, FALSE)
    \/ HttpFail(s)

NextBoot ==
    \/ \E s \in Slots : Respond(s)
    \/ \E year \in Years : SelectYear(year)
    \/ \E type \in VALID_AUDIT_TYPES : heatmapToggleFilter(type)

BootSpec ==
    InitBoot /\ [][NextBoot]_vars /\ \A s \in Slots : WF_vars(Respond(s))

InitOver == \A s \in Slots : tasks[s].kind # "init"

\* C17: heatmapInit ends, and it ends with the grid rendered for the selected
\* year from the map and the flag of that moment, whether the health check
\* and the year load succeeded or failed; when a failure escaped the load the
\* grid is rendered with the flag unreachable
C17_InitRenders ==
    /\ <>InitOver
    /\ [][\A s \in Slots :
            (tasks[s].kind = "init" /\ tasks'[s].kind = "idle")
                => /\ done'.kind = "init"
                   /\ done'.outcome = "returned"
                   /\ grid' = Drawn(heatmapData', heatmapIsOnline', authority')
                   /\ grid'.year = heatmapSelectedYear'
                   /\ done'.error = "TypeError" => ~grid'.online]_vars

\* the stored text null made the fallback of the year load throw, and the
\* grid was rendered in offline mode
C17_Witness ==
    /\ InitOver
    /\ done.kind = "init"
    /\ done.error = "TypeError"
    /\ storage = NullItem
    /\ grid # NotRendered
    /\ grid.year = heatmapSelectedYear
    /\ grid.data = EmptyMap
    /\ ~grid.online
    /\ ~heatmapIsOnline

====
